---- MODULE Spec2Model ----
(***************************************************************************)
(* Model of pkg/blobcache/blobcache.go: the BlobCache object, its          *)
(* constructor NewBlobCache, the existence probe HasBlob and the bulk      *)
(* clear ClearCache, over a model of the filesystem calls they make        *)
(* (os.Stat, os.Open, Readdirnames, os.RemoveAll).                         *)
(***************************************************************************)
EXTENDS Integers, Sequences, FiniteSets, TLC

VARIABLES
    disk,    \* the filesystem: a function from each existing path to its byte length
    store,   \* the *BlobCache the program holds (NilStore before construction)
    nb,      \* the last NewBlobCache call: its arguments and what it returned
    hb,      \* the HasBlob call: its arguments, the stat faults, how far it is or what it returned
    cc,      \* per caller of ClearCache: position in the function and its locals
    writes,  \* number of entries concurrent writers have created so far
    mf,      \* the last makeFilename calls: two argument pairs and the two names
    fw,      \* the last call of Directory, NewImage or a forwarded method, and its result
    remote,  \* the images that exist at the wrapped references' transports
    links,   \* content of the variant-link side files: path to target digest
    wr       \* per writer of cache entries: position in its write and its locals

\* the variables that NewBlobCache, HasBlob, ClearCache and Write leave alone
others == <<mf, fw, remote, links, wr>>

vars == <<disk, store, nb, hb, cc, writes, others>>

----------------------------------------------------------------------------
(* Bounds of the model *)

\* file sizes on disk range over 0..MaxSize
MaxSize == 1

\* total number of writes the concurrent writers perform in one behaviour
MaxWrites == 3

\* number of entries the cache directory holds at the start, where the
\* start is not an empty directory filled by writers
MaxEntries == 2

----------------------------------------------------------------------------
(* Values *)

\* the nil error
Nil == "<nil>"

\* syscall errors
ENOENT == "no such file or directory"
EACCES == "permission denied"
EIO == "input/output error"

\* errors an injected fault can make a syscall return
Faults == {EACCES, EIO}

\* no injected fault for a syscall
NoFault == "ok"

compressedNote == ".compressed"

decompressedNote == ".decompressed"

\* types.LayerCompression values NewBlobCache accepts
ValidCompression == {"Compress", "Decompress", "PreserveOriginal"}

\* LayerCompression values a caller may pass (one is not a recognised value)
CompressionInputs == ValidCompression \cup {"LayerCompression(999)"}

\* wrapped references a caller may pass
References == {[transport |-> "docker", within |-> "//busybox"],
               [transport |-> "dir", within |-> "/img"]}

\* the cache directory that exists on disk
CacheDir == "/cache"

\* directory arguments a caller may pass: empty, existing, not existing
DirectoryInputs == {"", CacheDir, "/missing"}

\* digests a caller asks about; "" is the empty digest
EmptyDigest == ""

NonEmptyDigests == {"sha:a", "sha:b"}

Digests == {EmptyDigest} \cup NonEmptyDigests

\* size of a descriptor whose size is unknown, and the size HasBlob reports
\* when it reports no blob
UnknownSize == -1

\* sizes a descriptor may carry
SizeInputs == UnknownSize..(MaxSize + 1)

\* a nil *BlobCache
NilStore == [isNil |-> TRUE]

----------------------------------------------------------------------------
(* Library functions the code calls *)

\* transports.ImageName(ref)
ImageName(ref) == ref.transport \o ":" \o ref.within

\* filepath.Join(dir, name) for two non-empty clean elements
Join(dir, name) == dir \o "/" \o name

\* a Wrap that wraps a nil error too, as fmt.Errorf("...: %v", err) would
WrapAlways(err, message) == message \o ": " \o err

\* perrors.Wrap(err, message): nil when err is nil
Wrap(err, message) == IF err = Nil THEN Nil ELSE message \o ": " \o err

\* os.IsNotExist(err)
IsNotExist(err) == err = ENOENT

\* os.Stat(filename) on filesystem d; fault is the error injected for this
\* call (NoFault for none). Returns the FileInfo size and the error.
Stat(d, filename, fault) ==
    IF fault # NoFault THEN [size |-> UnknownSize, err |-> fault]
    ELSE IF filename \in DOMAIN d THEN [size |-> d[filename], err |-> Nil]
    ELSE [size |-> UnknownSize, err |-> ENOENT]

\* perrors.Wrapf(err, format, arg) with one %q argument: nil when err is nil
Wrapf(err, format, arg) ==
    IF err = Nil THEN Nil ELSE format \o " \"" \o arg \o "\": " \o err

\* os.Open(directory): the error it returns. Only CacheDir exists.
Open(directory, fault) ==
    IF fault # NoFault THEN fault
    ELSE IF directory = CacheDir THEN Nil
    ELSE ENOENT

\* a removal like os.Remove, which fails on a path that does not exist
RemoveStrict(d, pathname, fault) ==
    IF fault # NoFault THEN [disk |-> d, err |-> fault]
    ELSE IF pathname \notin DOMAIN d THEN [disk |-> d, err |-> ENOENT]
    ELSE [disk |-> [q \in DOMAIN d \ {pathname} |-> d[q]], err |-> Nil]

\* os.RemoveAll(pathname) on filesystem d: removing a path that does not
\* exist succeeds; a failed removal leaves the entry in place. An entry is
\* removed as one unit, be it a file or a tree.
RemoveAll(d, pathname, fault) ==
    IF fault # NoFault THEN [disk |-> d, err |-> fault]
    ELSE [disk |-> [q \in DOMAIN d \ {pathname} |-> d[q]], err |-> Nil]

\* all orders in which a directory listing can return the set S of names
Orders(S) ==
    {order \in [1..Cardinality(S) -> S] :
        \A i, j \in 1..Cardinality(S) : order[i] = order[j] => i = j}

----------------------------------------------------------------------------
(* blobcache.go *)

\* a makeFilename that returns the digest string for both forms
makeFilenamePlain(blobSum, isConfig) == blobSum

makeFilename(blobSum, isConfig) ==
    IF isConfig THEN blobSum \o ".config" ELSE blobSum

\* names that can appear in the cache directory: both forms of every digest
\* and a variant-link side file
Names == {makeFilename(dg, c) : dg \in NonEmptyDigests, c \in BOOLEAN}
            \cup {"sha:a" \o compressedNote}

\* paths of the model's filesystem
Paths == {Join(CacheDir, n) : n \in Names}

\* every filesystem content within the bounds
Disks == UNION {[S -> 0..MaxSize] : S \in SUBSET Paths}

\* a NewBlobCache without the check of the compression value
NewBlobCacheAnyPolicy(ref, directory, compress) ==
    IF directory = ""
    THEN [b |-> NilStore,
          err |-> "error creating cache around reference \"" \o ImageName(ref)
                    \o "\": no directory specified"]
    ELSE [b |-> [isNil |-> FALSE, reference |-> ref, directory |-> directory,
                 compress |-> compress],
          err |-> Nil]

NewBlobCache(ref, directory, compress) ==
    IF directory = ""
    THEN [b |-> NilStore,
          err |-> "error creating cache around reference \"" \o ImageName(ref)
                    \o "\": no directory specified"]
    ELSE IF compress \notin ValidCompression
    THEN [b |-> NilStore,
          err |-> "unhandled LayerCompression value " \o compress]
    ELSE [b |-> [isNil |-> FALSE, reference |-> ref, directory |-> directory,
                 compress |-> compress],
          err |-> Nil]

\* a Directory that returns the wrapped reference's string, as the methods
\* next to it do
DirectoryOfReference(b) == b.reference.within

Directory(b) == b.directory

\* What the wrapped reference answers; the reference is an object outside
\* this file and the cache only passes its answers on.
RefTransport(ref) == ref.transport

RefStringWithinTransport(ref) == ref.within

\* a docker reference has a name, others have none
RefDockerReference(ref) ==
    IF ref.transport = "docker" THEN "docker.io/library" \o ref.within ELSE Nil

RefPolicyConfigurationIdentity(ref) ==
    IF ref.transport = "docker" THEN "docker.io/library" \o ref.within ELSE ref.within

RefPolicyConfigurationNamespaces(ref) ==
    IF ref.transport = "docker" THEN <<"docker.io/library", "docker.io">> ELSE <<"/">>

\* the reference's DeleteImage on the set rem of images that exist: the new
\* set and the error
RefDeleteImage(ref, rem, fault) ==
    IF fault # NoFault THEN [remote |-> rem, err |-> fault]
    ELSE IF ImageName(ref) \notin rem THEN [remote |-> rem, err |-> ENOENT]
    ELSE [remote |-> rem \ {ImageName(ref)}, err |-> Nil]

\* image.FromReference(ctx, sys, ref): the reference the image is opened
\* over, or no image and the error of opening it
FromReference(ref, fault) ==
    IF fault # NoFault THEN [img |-> NilStore, err |-> fault]
    ELSE [img |-> ref, err |-> Nil]

Transport(b) == RefTransport(b.reference)

StringWithinTransport(b) == RefStringWithinTransport(b.reference)

DockerReference(b) == RefDockerReference(b.reference)

PolicyConfigurationIdentity(b) == RefPolicyConfigurationIdentity(b.reference)

PolicyConfigurationNamespaces(b) == RefPolicyConfigurationNamespaces(b.reference)

DeleteImage(b, rem, fault) == RefDeleteImage(b.reference, rem, fault)

NewImage(b, fault) == FromReference(b, fault)

\* a loop iteration that matches on equal sizes only, without the -1 case
HasBlobProbeExactSize(b, blobinfo, d, fault, isConfig) ==
    LET filename == Join(b.directory, makeFilename(blobinfo.Digest, isConfig))
        st == Stat(d, filename, fault[isConfig])
    IN  IF st.err = Nil /\ blobinfo.Size = st.size
        THEN [returned |-> TRUE, found |-> TRUE, size |-> st.size, err |-> Nil,
              statted |-> filename]
        ELSE IF ~IsNotExist(st.err)
        THEN [returned |-> TRUE, found |-> FALSE, size |-> UnknownSize,
              err |-> Wrap(st.err, "checking size"), statted |-> filename]
        ELSE [returned |-> FALSE, found |-> FALSE, size |-> UnknownSize, err |-> Nil,
              statted |-> filename]

\* a loop iteration that goes on to the next form after any stat error
HasBlobProbeSkipErrors(b, blobinfo, d, fault, isConfig) ==
    LET filename == Join(b.directory, makeFilename(blobinfo.Digest, isConfig))
        st == Stat(d, filename, fault[isConfig])
    IN  IF st.err = Nil /\ (blobinfo.Size = UnknownSize \/ blobinfo.Size = st.size)
        THEN [returned |-> TRUE, found |-> TRUE, size |-> st.size, err |-> Nil,
              statted |-> filename]
        ELSE IF st.err = Nil
        THEN [returned |-> TRUE, found |-> FALSE, size |-> UnknownSize,
              err |-> Nil, statted |-> filename]
        ELSE [returned |-> FALSE, found |-> FALSE, size |-> UnknownSize, err |-> Nil,
              statted |-> filename]

\* One iteration of the loop of HasBlob, for one value of isConfig.
\* fault[isConfig] is the error injected into this iteration's os.Stat.
\* returned tells whether the iteration returns from HasBlob.
HasBlobProbe(b, blobinfo, d, fault, isConfig) ==
    LET filename == Join(b.directory, makeFilename(blobinfo.Digest, isConfig))
        st == Stat(d, filename, fault[isConfig])
    IN  IF st.err = Nil /\ (blobinfo.Size = UnknownSize \/ blobinfo.Size = st.size)
        THEN [returned |-> TRUE, found |-> TRUE, size |-> st.size, err |-> Nil,
              statted |-> filename]
        ELSE IF ~IsNotExist(st.err)
        THEN [returned |-> TRUE, found |-> FALSE, size |-> UnknownSize,
              err |-> Wrap(st.err, "checking size"), statted |-> filename]
        ELSE [returned |-> FALSE, found |-> FALSE, size |-> UnknownSize, err |-> Nil,
              statted |-> filename]

\* what HasBlob reports when it has found nothing
NotFound(stats) == [found |-> FALSE, size |-> UnknownSize, err |-> Nil, stats |-> stats]

\* an entry into HasBlob without the early return for the empty digest
HasBlobEnterNoEmptyCheck(b, blobinfo) ==
    [returned |-> FALSE, forms |-> <<FALSE, TRUE>>]

\* an entry into HasBlob that sets the loop to try the config form first
HasBlobEnterConfigFirst(b, blobinfo) ==
    IF blobinfo.Digest = ""
    THEN [returned |-> TRUE, forms |-> << >>]
    ELSE [returned |-> FALSE, forms |-> <<TRUE, FALSE>>]

\* HasBlob before its first system call: the early return for the empty
\* digest, else the values of isConfig the loop goes through, in order.
HasBlobEnter(b, blobinfo) ==
    IF blobinfo.Digest = ""
    THEN [returned |-> TRUE, forms |-> << >>]
    ELSE [returned |-> FALSE, forms |-> <<FALSE, TRUE>>]

\* HasBlob from one os.Stat to the next: the iteration for Head(forms) on
\* the filesystem d as it is at that stat, and the return after the loop
\* when that was the last form. stats are the paths statted so far.
HasBlobStatStep(b, blobinfo, d, fault, forms, stats) ==
    LET r == HasBlobProbe(b, blobinfo, d, fault, Head(forms))
        statted == Append(stats, r.statted)
    IN  IF r.returned
        THEN [returned |-> TRUE, forms |-> << >>, stats |-> statted,
              ret |-> [found |-> r.found, size |-> r.size, err |-> r.err,
                       stats |-> statted]]
        ELSE IF Tail(forms) = << >>
        THEN [returned |-> TRUE, forms |-> << >>, stats |-> statted,
              ret |-> NotFound(statted)]
        ELSE [returned |-> FALSE, forms |-> Tail(forms), stats |-> statted,
              ret |-> NotFound(statted)]

\* The loop of HasBlob over the remaining values of isConfig when the
\* filesystem stays d from stat to stat.
RECURSIVE HasBlobLoop(_, _, _, _, _, _)
HasBlobLoop(b, blobinfo, d, fault, forms, stats) ==
    IF forms = << >>
    THEN NotFound(stats)
    ELSE LET s == HasBlobStatStep(b, blobinfo, d, fault, forms, stats)
         IN  IF s.returned THEN s.ret
             ELSE HasBlobLoop(b, blobinfo, d, fault, s.forms, s.stats)

\* (b *BlobCache) HasBlob(blobinfo) called on a filesystem that stays d
\* during the call: the three results and the paths it statted, in order.
HasBlob(b, blobinfo, d, fault) ==
    LET e == HasBlobEnter(b, blobinfo)
    IN  IF e.returned THEN NotFound(<< >>)
        ELSE HasBlobLoop(b, blobinfo, d, fault, e.forms, << >>)

\* names of the entries of directory on filesystem d
DirNames(d, directory) == {n \in Names : Join(directory, n) \in DOMAIN d}

\* ClearCache, first step: os.Open of the directory. c is the caller's
\* record; the result is the caller's new record and the filesystem.
ClearOpenStep(b, d, fault) ==
    LET err == Open(b.directory, fault)
    IN  IF err # Nil
        THEN [c |-> [pc |-> "done", names |-> << >>, tried |-> 0, err |-> err,
                     late |-> {}],
              disk |-> d]
        ELSE [c |-> [pc |-> "opened", names |-> << >>, tried |-> 0, err |-> Nil,
                     late |-> {}],
              disk |-> d]

\* a list step that notes the error of Readdirnames and goes on with the
\* names it got
ClearListStepNoReturn(b, d, c, fault, order) ==
    [c |-> [c EXCEPT !.pc = "listed", !.names = order,
                     !.err = Wrapf(IF fault = NoFault THEN Nil ELSE fault,
                                   "error reading directory", b.directory)],
     disk |-> d]

\* ClearCache, second step: f.Readdirnames(-1), returning the names in the
\* given order unless it fails.
ClearListStep(b, d, c, fault, order) ==
    IF fault # NoFault
    THEN [c |-> [c EXCEPT !.pc = "done",
                          !.err = Wrapf(fault, "error reading directory", b.directory)],
          disk |-> d]
    ELSE [c |-> [c EXCEPT !.pc = "listed", !.names = order],
          disk |-> d]

\* a loop iteration that drops the error of os.RemoveAll
ClearRemoveStepIgnoreError(b, d, c, fault) ==
    LET name == c.names[c.tried + 1]
        pathname == Join(b.directory, name)
        rm == RemoveAll(d, pathname, fault)
    IN  [c |-> [c EXCEPT !.tried = c.tried + 1], disk |-> rm.disk]

\* a loop iteration that notes the error of os.RemoveAll and goes on with
\* the next name
ClearRemoveStepKeepGoing(b, d, c, fault) ==
    LET name == c.names[c.tried + 1]
        pathname == Join(b.directory, name)
        rm == RemoveAll(d, pathname, fault)
    IN  [c |-> [c EXCEPT !.tried = c.tried + 1,
                         !.err = IF rm.err # Nil
                                 THEN Wrapf(rm.err, "clearing cache for",
                                            ImageName(b.reference))
                                 ELSE c.err],
         disk |-> rm.disk]

\* a loop iteration that removes the directory's whole content instead of
\* the one listed name
ClearRemoveStepWholeDir(b, d, c, fault) ==
    LET gone == {Join(b.directory, n) : n \in Names}
    IN  IF fault # NoFault
        THEN [c |-> [c EXCEPT !.pc = "done", !.tried = c.tried + 1,
                              !.err = Wrapf(fault, "clearing cache for",
                                            ImageName(b.reference))],
              disk |-> d]
        ELSE [c |-> [c EXCEPT !.tried = c.tried + 1],
              disk |-> [q \in DOMAIN d \ gone |-> d[q]]]

\* ClearCache, one iteration of the loop: os.RemoveAll of the next name.
ClearRemoveStep(b, d, c, fault) ==
    LET name == c.names[c.tried + 1]
        pathname == Join(b.directory, name)
        rm == RemoveAll(d, pathname, fault)
    IN  IF rm.err # Nil
        THEN [c |-> [c EXCEPT !.pc = "done", !.tried = c.tried + 1,
                              !.err = Wrapf(rm.err, "clearing cache for",
                                            ImageName(b.reference))],
              disk |-> rm.disk]
        ELSE [c |-> [c EXCEPT !.tried = c.tried + 1],
              disk |-> rm.disk]

\* an end of the loop that lists the directory again while it has entries
ClearReturnStepRelist(b, d, c) ==
    IF DirNames(d, b.directory) # {}
    THEN [c |-> [c EXCEPT !.pc = "opened"], disk |-> d]
    ELSE [c |-> [c EXCEPT !.pc = "done", !.err = Nil], disk |-> d]

\* ClearCache, after the loop: return nil.
ClearReturnStep(b, d, c) ==
    [c |-> [c EXCEPT !.pc = "done", !.err = Nil], disk |-> d]

----------------------------------------------------------------------------
(* State *)

\* no HasBlob call has returned yet
NoCall == [called |-> FALSE]

\* a caller of ClearCache that is not inside the function
ClearIdle == [pc |-> "idle", names |-> << >>, tried |-> 0, err |-> Nil, late |-> {}]

\* callers of ClearCache
Clearers == {1, 2}

\* writers of cache entries
Writers == {1, 2}

\* a writer that is not writing
WriterIdle == [pc |-> "idle"]

\* no call recorded, nothing at the remote end changed, no side file, no
\* writer at work
OthersInit ==
    /\ mf = NoCall
    /\ fw = NoCall
    /\ remote = {ImageName(r) : r \in References}
    /\ links = << >>
    /\ wr = [w \in Writers |-> WriterIdle]

\* stores that NewBlobCache can have returned
Stores == {NewBlobCache(r, dir, c).b :
              r \in References, dir \in DirectoryInputs \ {""}, c \in ValidCompression}

----------------------------------------------------------------------------
(* HasBlob as a function of the filesystem: the specification SpecHasBlob *)

\* a store has been constructed and the cache directory holds any content
InitHasBlob ==
    /\ disk \in Disks
    /\ store \in Stores
    /\ nb = NoCall
    /\ hb = NoCall
    /\ cc = [p \in Clearers |-> ClearIdle]
    /\ writes = 0
    /\ OthersInit

\* the record of a HasBlob call that has returned ret
HasBlobReturned(blobinfo, fault, ret) ==
    [called |-> TRUE, blobinfo |-> blobinfo, fault |-> fault, ret |-> ret]

\* the record of a HasBlob call between two of its system calls
HasBlobProbing(blobinfo, fault, forms, stats) ==
    [called |-> FALSE, blobinfo |-> blobinfo, fault |-> fault, forms |-> forms,
     stats |-> stats]

\* a HasBlob call is between two of its system calls
Probing == ~hb.called /\ hb # NoCall

\* a caller enters HasBlob on the store: it returns at once for the empty
\* digest and is before its first os.Stat otherwise. fault holds the error
\* each os.Stat of the call will meet.
HasBlobCall ==
    /\ ~store.isNil
    /\ hb = NoCall
    /\ \E dg \in Digests, sz \in SizeInputs, fault \in [BOOLEAN -> {NoFault} \cup Faults] :
          LET blobinfo == [Digest |-> dg, Size |-> sz]
              e == HasBlobEnter(store, blobinfo)
          IN  hb' = IF e.returned
                    THEN HasBlobReturned(blobinfo, fault, NotFound(<< >>))
                    ELSE HasBlobProbing(blobinfo, fault, e.forms, << >>)
    /\ UNCHANGED <<disk, store, nb, cc, writes, others>>

\* a stat step that also deletes the entries of the digest when the call
\* returns without a blob
HasBlobStatPruning ==
    /\ Probing
    /\ LET s == HasBlobStatStep(store, hb.blobinfo, disk, hb.fault, hb.forms, hb.stats)
           gone == IF s.returned /\ ~s.ret.found
                   THEN {Join(store.directory, makeFilename(hb.blobinfo.Digest, c)) :
                            c \in BOOLEAN}
                   ELSE {}
       IN  /\ hb' = IF s.returned
                    THEN HasBlobReturned(hb.blobinfo, hb.fault, s.ret)
                    ELSE HasBlobProbing(hb.blobinfo, hb.fault, s.forms, s.stats)
           /\ disk' = [q \in DOMAIN disk \ gone |-> disk[q]]
    /\ UNCHANGED <<store, nb, cc, writes, others>>

\* the call makes its next os.Stat, on the directory as it is now, and
\* returns or goes on to the next form
HasBlobStat ==
    /\ Probing
    /\ LET s == HasBlobStatStep(store, hb.blobinfo, disk, hb.fault, hb.forms, hb.stats)
       IN  hb' = IF s.returned
                 THEN HasBlobReturned(hb.blobinfo, hb.fault, s.ret)
                 ELSE HasBlobProbing(hb.blobinfo, hb.fault, s.forms, s.stats)
    /\ UNCHANGED <<disk, store, nb, cc, writes, others>>

\* the caller drops the results
HasBlobDone ==
    /\ hb.called
    /\ hb' = NoCall
    /\ UNCHANGED <<disk, store, nb, cc, writes, others>>

NextHasBlob == HasBlobCall \/ HasBlobStat \/ HasBlobDone

SpecHasBlob == InitHasBlob /\ [][NextHasBlob]_vars

----------------------------------------------------------------------------
(* The store's life with concurrent writers: the specification Spec *)

\* nothing constructed yet, an empty cache directory
Init ==
    /\ disk = << >>
    /\ store = NilStore
    /\ nb = NoCall
    /\ hb = NoCall
    /\ cc = [p \in Clearers |-> ClearIdle]
    /\ writes = 0
    /\ OthersInit

\* the program constructs its store; a failed call can be repeated
NewBlobCacheCall ==
    /\ store.isNil
    /\ \E ref \in References, directory \in DirectoryInputs, compress \in CompressionInputs :
          LET r == NewBlobCache(ref, directory, compress)
          IN  /\ nb' = [called |-> TRUE, ref |-> ref, directory |-> directory,
                        compress |-> compress, ret |-> r]
              /\ store' = r.b
    /\ UNCHANGED <<disk, hb, cc, writes, others>>

\* a writer outside this file (another thread or process) creates or replaces
\* an entry of the cache directory in one atomic step; every ClearCache call
\* that has taken its listing notes the path as written late
Write ==
    /\ writes < MaxWrites
    /\ \E path \in Paths, size \in 0..MaxSize :
          /\ disk' = [q \in DOMAIN disk \cup {path} |->
                          IF q = path THEN size ELSE disk[q]]
          /\ cc' = [p \in Clearers |->
                      IF cc[p].pc \in {"listed", "done"}
                      THEN [cc[p] EXCEPT !.late = @ \cup {path}]
                      ELSE cc[p]]
    /\ writes' = writes + 1
    /\ UNCHANGED <<store, nb, hb, others>>

\* caller p enters ClearCache and opens the directory
ClearOpen(p) ==
    /\ ~store.isNil
    /\ cc[p].pc \in {"idle", "done"}
    /\ \E fault \in {NoFault} \cup Faults :
          LET r == ClearOpenStep(store, disk, fault)
          IN  /\ cc' = [cc EXCEPT ![p] = r.c]
              /\ disk' = r.disk
    /\ UNCHANGED <<store, nb, hb, writes, others>>

\* caller p lists the directory
ClearList(p) ==
    /\ cc[p].pc = "opened"
    /\ \E fault \in {NoFault} \cup Faults,
          order \in Orders(DirNames(disk, store.directory)) :
          LET r == ClearListStep(store, disk, cc[p], fault, order)
          IN  /\ cc' = [cc EXCEPT ![p] = r.c]
              /\ disk' = r.disk
    /\ UNCHANGED <<store, nb, hb, writes, others>>

\* caller p removes the next name of its listing
ClearRemove(p) ==
    /\ cc[p].pc = "listed"
    /\ cc[p].tried < Len(cc[p].names)
    /\ \E fault \in {NoFault} \cup Faults :
          LET r == ClearRemoveStep(store, disk, cc[p], fault)
          IN  /\ cc' = [cc EXCEPT ![p] = r.c]
              /\ disk' = r.disk
    /\ UNCHANGED <<store, nb, hb, writes, others>>

\* caller p has gone through its listing and returns nil
ClearReturn(p) ==
    /\ cc[p].pc = "listed"
    /\ cc[p].tried = Len(cc[p].names)
    /\ LET r == ClearReturnStep(store, disk, cc[p])
       IN  /\ cc' = [cc EXCEPT ![p] = r.c]
           /\ disk' = r.disk
    /\ UNCHANGED <<store, nb, hb, writes, others>>

Next ==
    \/ NewBlobCacheCall
    \/ Write
    \/ ClearOpen(1)
    \/ ClearList(1)
    \/ ClearRemove(1)
    \/ ClearReturn(1)

Spec == Init /\ [][Next]_vars

----------------------------------------------------------------------------
(* Properties of HasBlob, over the behaviours of SpecHasBlob *)

\* path of the plain form and of the config form of digest dg in b's directory
FormPath(b, dg, isConfig) == Join(b.directory, makeFilename(dg, isConfig))

\* the returned call's digest is not empty
CalledNonEmpty == hb.called /\ hb.blobinfo.Digest # EmptyDigest

\* the stat the call made of the given form failed for a reason other than
\* "does not exist"
StatFailed(isConfig) ==
    /\ \E i \in 1..Len(hb.ret.stats) :
          hb.ret.stats[i] = FormPath(store, hb.blobinfo.Digest, isConfig)
    /\ hb.fault[isConfig] # NoFault

\* the call returned exactly (found, size, err)
Returned(found, size, err) ==
    /\ hb.ret.found = found
    /\ hb.ret.size = size
    /\ hb.ret.err = err

\* the form exists on disk and its size satisfies the descriptor
FormMatches(isConfig) ==
    LET path == FormPath(store, hb.blobinfo.Digest, isConfig)
    IN  /\ path \in DOMAIN disk
        /\ (hb.blobinfo.Size = UnknownSize \/ hb.blobinfo.Size = disk[path])

\* the only entry of the call's digest is its plain form
OnlyPlainForm ==
    /\ FormPath(store, hb.blobinfo.Digest, FALSE) \in DOMAIN disk
    /\ FormPath(store, hb.blobinfo.Digest, TRUE) \notin DOMAIN disk

\* C1: for a non-empty digest whose only entry is the plain-form file of
\* length n, with no stat failing, HasBlob({d, n}) returns (true, n, nil) and
\* HasBlob({d, n+1}) returns (false, -1, nil).
C1_PlainSizeMatch ==
    (CalledNonEmpty /\ OnlyPlainForm /\ ~StatFailed(FALSE) /\ ~StatFailed(TRUE)) =>
        LET n == disk[FormPath(store, hb.blobinfo.Digest, FALSE)]
        IN  /\ hb.blobinfo.Size = n => Returned(TRUE, n, Nil)
            /\ hb.blobinfo.Size = n + 1 => Returned(FALSE, UnknownSize, Nil)

\* a call with size n+1 on a digest stored only in plain form with length n
C1_Witness ==
    /\ CalledNonEmpty /\ OnlyPlainForm
    /\ hb.fault = [c \in BOOLEAN |-> NoFault]
    /\ hb.blobinfo.Size = disk[FormPath(store, hb.blobinfo.Digest, FALSE)] + 1
    /\ Returned(FALSE, UnknownSize, Nil)

\* C2: for a non-empty digest and no stat failing, HasBlob returns found=true
\* exactly when at least one of the two forms exists with a matching size (or
\* the descriptor's size is -1), and (false, -1, nil) only when neither does.
C2_FoundIffSomeFormMatches ==
    (CalledNonEmpty /\ hb.fault = [c \in BOOLEAN |-> NoFault]) =>
        /\ hb.ret.found <=> (FormMatches(FALSE) \/ FormMatches(TRUE))
        /\ Returned(FALSE, UnknownSize, Nil) => ~(FormMatches(FALSE) \/ FormMatches(TRUE))

\* C3: for a non-empty digest with an entry in either form and no stat
\* failing, HasBlob({d, -1}) returns (true, s, nil), s being the length of an
\* existing entry of d.
C3_UnknownSizeFound ==
    (/\ CalledNonEmpty
     /\ hb.blobinfo.Size = UnknownSize
     /\ \E c \in BOOLEAN : FormPath(store, hb.blobinfo.Digest, c) \in DOMAIN disk
     /\ ~StatFailed(FALSE) /\ ~StatFailed(TRUE)) =>
        /\ hb.ret.found
        /\ hb.ret.err = Nil
        /\ \E c \in BOOLEAN :
              /\ FormPath(store, hb.blobinfo.Digest, c) \in DOMAIN disk
              /\ hb.ret.size = disk[FormPath(store, hb.blobinfo.Digest, c)]

\* a call with size -1 on a digest stored only in config form, found with
\* the config file's length
C3_Witness ==
    /\ CalledNonEmpty
    /\ hb.blobinfo.Size = UnknownSize
    /\ FormPath(store, hb.blobinfo.Digest, FALSE) \notin DOMAIN disk
    /\ FormPath(store, hb.blobinfo.Digest, TRUE) \in DOMAIN disk
    /\ hb.fault[FALSE] = NoFault
    /\ Returned(TRUE, disk[FormPath(store, hb.blobinfo.Digest, TRUE)], Nil)
    /\ hb.ret.size = MaxSize

\* C4: when a stat HasBlob makes fails for a reason other than "does not
\* exist", HasBlob returns (false, -1, err) with err the wrapped, non-nil
\* error, and that stat is the last one it makes.
C4_StatErrorStops ==
    \A c \in BOOLEAN :
        (CalledNonEmpty /\ StatFailed(c)) =>
            /\ Returned(FALSE, UnknownSize, Wrap(hb.fault[c], "checking size"))
            /\ hb.ret.err # Nil
            /\ hb.ret.stats[Len(hb.ret.stats)] = FormPath(store, hb.blobinfo.Digest, c)
            /\ (c = FALSE => Len(hb.ret.stats) = 1)

\* the plain form exists with the requested size, its stat fails, and the
\* config form is not probed
C4_Witness ==
    /\ CalledNonEmpty
    /\ StatFailed(FALSE)
    /\ FormMatches(FALSE) /\ FormMatches(TRUE)
    /\ hb.ret.stats = <<FormPath(store, hb.blobinfo.Digest, FALSE)>>
    /\ hb.ret.err = "checking size: " \o EACCES

\* C5: HasBlob with an empty digest returns (false, -1, nil) for every size
\* and every state, also when every stat would fail, and makes no stat.
C5_EmptyDigest ==
    (hb.called /\ hb.blobinfo.Digest = EmptyDigest) =>
        /\ Returned(FALSE, UnknownSize, Nil)
        /\ hb.ret.stats = << >>

\* an empty-digest call with a non-empty cache and every stat set to fail
C5_Witness ==
    /\ hb.called /\ hb.blobinfo.Digest = EmptyDigest
    /\ hb.blobinfo.Size = 0
    /\ \A c \in BOOLEAN : hb.fault[c] = EIO
    /\ DOMAIN disk = Paths
    /\ Returned(FALSE, UnknownSize, Nil)

\* C15: when both forms of a digest exist with different sizes, the
\* descriptor's size is -1 and the stat of the plain form does not fail,
\* HasBlob returns the plain form's size and stats the plain form only.
C15_PlainFormFirst ==
    (/\ CalledNonEmpty
     /\ hb.blobinfo.Size = UnknownSize
     /\ FormPath(store, hb.blobinfo.Digest, FALSE) \in DOMAIN disk
     /\ FormPath(store, hb.blobinfo.Digest, TRUE) \in DOMAIN disk
     /\ disk[FormPath(store, hb.blobinfo.Digest, FALSE)]
            # disk[FormPath(store, hb.blobinfo.Digest, TRUE)]
     /\ hb.fault[FALSE] = NoFault) =>
        /\ Returned(TRUE, disk[FormPath(store, hb.blobinfo.Digest, FALSE)], Nil)
        /\ hb.ret.stats = <<FormPath(store, hb.blobinfo.Digest, FALSE)>>

\* both forms exist, the config form is the larger and its stat would fail:
\* the plain form's size is returned
C15_Witness ==
    /\ CalledNonEmpty
    /\ hb.blobinfo.Size = UnknownSize
    /\ FormPath(store, hb.blobinfo.Digest, FALSE) \in DOMAIN disk
    /\ FormPath(store, hb.blobinfo.Digest, TRUE) \in DOMAIN disk
    /\ disk[FormPath(store, hb.blobinfo.Digest, FALSE)] = 0
    /\ disk[FormPath(store, hb.blobinfo.Digest, TRUE)] = MaxSize
    /\ hb.fault = [c \in BOOLEAN |-> IF c THEN EIO ELSE NoFault]
    /\ Returned(TRUE, 0, Nil)

----------------------------------------------------------------------------
(* Properties of ClearCache and NewBlobCache, over the behaviours of Spec *)

\* path in the store's directory of a listed name
CachePath(name) == Join(store.directory, name)

\* paths of the names caller p listed
ListedPaths(p) == {CachePath(cc[p].names[i]) : i \in 1..Len(cc[p].names)}

\* the errors ClearCache returns when os.Open fails
OpenErrors == Faults \cup {ENOENT}

\* the errors ClearCache returns when Readdirnames fails
ListErrors ==
    IF store.isNil THEN {}
    ELSE {Wrapf(f, "error reading directory", store.directory) : f \in Faults}

\* the errors ClearCache returns when a removal fails
RemoveErrors ==
    IF store.isNil THEN {}
    ELSE {Wrapf(f, "clearing cache for", ImageName(store.reference)) : f \in Faults}

\* caller p's ClearCache has returned nil
ClearedNil(p) == cc[p].pc = "done" /\ cc[p].err = Nil

\* HasBlob reports no blob for every digest and size, no stat failing
NothingFound ==
    \A dg \in Digests, sz \in SizeInputs :
        LET r == HasBlob(store, [Digest |-> dg, Size |-> sz], disk,
                         [c \in BOOLEAN |-> NoFault])
        IN  ~r.found /\ r.size = UnknownSize /\ r.err = Nil

\* C6: when ClearCache has returned nil and no writer has written since its
\* listing, the cache directory has no entries and HasBlob reports
\* (false, -1, nil) for every digest.
C6_ClearEmpties ==
    \A p \in Clearers :
        (ClearedNil(p) /\ cc[p].late = {}) =>
            /\ DirNames(disk, store.directory) = {}
            /\ NothingFound

\* a successful clear of a plain entry, a config entry and a side file
C6_Witness ==
    /\ ClearedNil(1) /\ cc[1].late = {}
    /\ ListedPaths(1) = {Join(CacheDir, "sha:a"), Join(CacheDir, "sha:a.config"),
                         Join(CacheDir, "sha:a" \o compressedNote)}
    /\ disk = << >>

\* C7: when a removal fails, ClearCache is done with a non-nil error at that
\* entry: the listed entries before it are gone unless a writer wrote them
\* again, the failing entry and those after it are still in place, and no
\* removal was tried on the later ones.
C7_RemovalFailureAborts ==
    \A p \in Clearers :
        cc[p].err \in RemoveErrors =>
            /\ cc[p].pc = "done"
            /\ cc[p].err # Nil
            /\ cc[p].tried \in 1..Len(cc[p].names)
            /\ \A i \in 1..Len(cc[p].names) :
                  LET path == CachePath(cc[p].names[i])
                  IN  /\ (i < cc[p].tried /\ path \notin cc[p].late) => path \notin DOMAIN disk
                      /\ i >= cc[p].tried => path \in DOMAIN disk

\* a sweep of three names that failed at the second one, with no writer
\* interfering: the first is gone, the second and third remain
C7_Witness ==
    /\ cc[1].pc = "done" /\ cc[1].err \in RemoveErrors
    /\ Len(cc[1].names) = 3 /\ cc[1].tried = 2
    /\ cc[1].late = {}
    /\ DOMAIN disk = {CachePath(cc[1].names[2]), CachePath(cc[1].names[3])}

\* an open or a list step of caller p
OpenOrList(p) == ClearOpen(p) \/ ClearList(p)

\* C8: an error of opening or listing the directory ends ClearCache with that
\* non-nil error before any removal is tried, a directory that does not exist
\* is never listed, and the open and list steps leave the filesystem as it is.
C8_OpenListFailure ==
    /\ [](\A p \in Clearers :
            /\ cc[p].err \in OpenErrors \cup ListErrors =>
                  cc[p].pc = "done" /\ cc[p].err # Nil /\ cc[p].tried = 0
            /\ (~store.isNil /\ store.directory # CacheDir) =>
                  /\ cc[p].pc \in {"idle", "done"}
                  /\ cc[p].pc = "done" => cc[p].err \in OpenErrors)
    /\ [][\A p \in Clearers :
            OpenOrList(p) =>
                /\ disk' = disk
                /\ cc'[p].pc = "done" =>
                      cc'[p].err \in OpenErrors \cup ListErrors /\ cc'[p].tried = 0]_vars

\* a failed listing of a directory that holds entries, all still there
C8_Witness ==
    /\ cc[1].pc = "done" /\ cc[1].err \in ListErrors
    /\ cc[1].tried = 0
    /\ Cardinality(DOMAIN disk) = MaxWrites

\* C9: ClearCache removes only paths of its listing; after it returns nil a
\* listed entry no writer wrote since the listing is gone, and an entry
\* written since the listing under a name not listed is present.
C9_ListingSnapshot ==
    /\ [](\A p \in Clearers :
            ClearedNil(p) =>
                /\ \A path \in ListedPaths(p) \ cc[p].late : path \notin DOMAIN disk
                /\ \A path \in cc[p].late \ ListedPaths(p) : path \in DOMAIN disk)
    /\ [][\A p \in Clearers :
            ClearRemove(p) => (DOMAIN disk \ DOMAIN disk') \subseteq ListedPaths(p)]_vars

\* ClearCache has returned nil; an entry written before the listing and
\* written again during the sweep was removed, and an entry written during
\* the sweep under an unlisted name survives and HasBlob finds it
C9_Witness ==
    /\ ClearedNil(1)
    /\ \E path \in ListedPaths(1) \cap cc[1].late : path \notin DOMAIN disk
    /\ \E dg \in NonEmptyDigests :
          /\ FormPath(store, dg, FALSE) \in cc[1].late \ ListedPaths(1)
          /\ HasBlob(store, [Digest |-> dg, Size |-> UnknownSize], disk,
                     [c \in BOOLEAN |-> NoFault]).found

\* C10: NewBlobCache returns an error and no store for an empty directory or
\* an unrecognised policy; otherwise, whether or not the directory exists, a
\* store holding the given directory, policy and reference and no error; the
\* call leaves the filesystem as it is.
C10_Construction ==
    /\ [](nb.called =>
            IF nb.directory = "" \/ nb.compress \notin ValidCompression
            THEN nb.ret.err # Nil /\ nb.ret.b = NilStore
            ELSE /\ nb.ret.err = Nil
                 /\ ~nb.ret.b.isNil
                 /\ Directory(nb.ret.b) = nb.directory
                 /\ nb.ret.b.compress = nb.compress
                 /\ nb.ret.b.reference = nb.ref
                 /\ store = nb.ret.b)
    /\ [][NewBlobCacheCall => disk' = disk]_vars

\* a store constructed over a directory that does not exist, while the
\* cache directory holds entries
C10_Witness ==
    /\ nb.called /\ nb.directory = "/missing" /\ nb.compress = "Decompress"
    /\ ~store.isNil /\ Directory(store) = "/missing"
    /\ disk # << >>

----------------------------------------------------------------------------
(* makeFilename as a function: the specification SpecFilename *)

\* digest strings makeFilename is applied to: the digests callers ask about,
\* and those followed by the suffixes the directory layout uses
DigestStrings ==
    Digests \cup {dg \o ".config" : dg \in NonEmptyDigests}
            \cup {dg \o ".config.config" : dg \in NonEmptyDigests}
            \cup {dg \o compressedNote : dg \in NonEmptyDigests}

\* the arguments of one makeFilename call
FilenameArgs == [blobSum : DigestStrings, isConfig : BOOLEAN]

\* makeFilename is applied to two argument pairs
MakeFilenameCall ==
    /\ ~mf.called
    /\ \E a1 \in FilenameArgs, a2 \in FilenameArgs :
          mf' = [called |-> TRUE, args |-> <<a1, a2>>,
                 names |-> <<makeFilename(a1.blobSum, a1.isConfig),
                             makeFilename(a2.blobSum, a2.isConfig)>>]
    /\ UNCHANGED <<disk, store, nb, hb, cc, writes, fw, remote, links, wr>>

NextFilename == MakeFilenameCall

SpecFilename == Init /\ [][NextFilename]_vars

\* the digest string ends in the config suffix
EndsInConfig(blobSum) == \E x \in DigestStrings : blobSum = x \o ".config"

\* C11 (as claimed): any two (digest, isConfig) pairs that differ in the
\* digest or in the flag get different filenames, for every digest string.
C11_InjectiveOnAllStrings ==
    (mf.called /\ mf.args[1] # mf.args[2]) => mf.names[1] # mf.names[2]

\* C11 (amended): two pairs that differ get different filenames whenever
\* neither digest ends in ".config"; two differing pairs with the same
\* filename are always (x.config, false) and (x, true).
C11_InjectiveOnPlainDigests ==
    (mf.called /\ mf.args[1] # mf.args[2]) =>
        /\ (~EndsInConfig(mf.args[1].blobSum) /\ ~EndsInConfig(mf.args[2].blobSum))
              => mf.names[1] # mf.names[2]
        /\ mf.names[1] = mf.names[2] =>
              \E i, j \in {1, 2} :
                  /\ ~mf.args[i].isConfig /\ mf.args[j].isConfig
                  /\ mf.args[i].blobSum = mf.args[j].blobSum \o ".config"

\* the two forms of one digest, with two different filenames
C11_Witness ==
    /\ mf.called
    /\ mf.args[1] = [blobSum |-> "sha:a", isConfig |-> FALSE]
    /\ mf.args[2] = [blobSum |-> "sha:a", isConfig |-> TRUE]
    /\ mf.names = <<"sha:a", "sha:a.config">>

----------------------------------------------------------------------------
(* The methods of a constructed store, called one after another: the       *)
(* specification SpecMethods                                               *)

\* the cache directory's contents with at most MaxEntries entries
SmallDisks == {d \in Disks : Cardinality(DOMAIN d) <= MaxEntries}

\* NewBlobCache has returned a store; the directory holds a few entries
InitMethods ==
    /\ disk \in SmallDisks
    /\ \E ref \in References, directory \in DirectoryInputs, compress \in CompressionInputs :
          LET r == NewBlobCache(ref, directory, compress)
          IN  /\ r.err = Nil
              /\ nb = [called |-> TRUE, ref |-> ref, directory |-> directory,
                       compress |-> compress, ret |-> r]
              /\ store = r.b
    /\ hb = NoCall
    /\ cc = [p \in Clearers |-> ClearIdle]
    /\ writes = 0
    /\ OthersInit

\* no call is under way and no result is held
Quiet == hb = NoCall /\ ~fw.called /\ \A p \in Clearers : cc[p].pc = "idle"

\* the caller gets the result of a method that touches nothing; fw holds
\* the returned strings as a sequence, and the store an image was opened over
Answer(method, ret) ==
    /\ fw' = [called |-> TRUE, method |-> method, ret |-> ret, img |-> NilStore]
    /\ UNCHANGED <<disk, store, nb, hb, cc, writes, mf, remote, links, wr>>

DirectoryCall == Answer("Directory", <<Directory(store)>>)

TransportCall == Answer("Transport", <<Transport(store)>>)

StringWithinTransportCall ==
    Answer("StringWithinTransport", <<StringWithinTransport(store)>>)

DockerReferenceCall == Answer("DockerReference", <<DockerReference(store)>>)

PolicyConfigurationIdentityCall ==
    Answer("PolicyConfigurationIdentity", <<PolicyConfigurationIdentity(store)>>)

PolicyConfigurationNamespacesCall ==
    Answer("PolicyConfigurationNamespaces", PolicyConfigurationNamespaces(store))

\* DeleteImage is passed on to the reference, which deletes the remote image
DeleteImageCall ==
    /\ \E fault \in {NoFault} \cup Faults :
          LET r == DeleteImage(store, remote, fault)
          IN  /\ remote' = r.remote
              /\ fw' = [called |-> TRUE, method |-> "DeleteImage", ret |-> <<r.err>>,
                        img |-> NilStore]
    /\ UNCHANGED <<disk, store, nb, hb, cc, writes, mf, links, wr>>

\* NewImage opens an image over the store itself
NewImageCall ==
    /\ \E fault \in {NoFault} \cup Faults :
          LET r == NewImage(store, fault)
          IN  fw' = [called |-> TRUE, method |-> "NewImage", ret |-> <<r.err>>,
                     img |-> r.img]
    /\ UNCHANGED <<disk, store, nb, hb, cc, writes, mf, remote, links, wr>>

\* the caller drops the result
AnswerDone ==
    /\ fw.called
    /\ fw' = NoCall
    /\ UNCHANGED <<disk, store, nb, hb, cc, writes, mf, remote, links, wr>>

\* the caller of ClearCache drops its result
ClearForget(p) ==
    /\ cc[p].pc = "done"
    /\ cc' = [cc EXCEPT ![p] = ClearIdle]
    /\ UNCHANGED <<disk, store, nb, hb, writes, others>>

NextMethods ==
    \/ (Quiet /\ HasBlobCall)
    \/ HasBlobStat
    \/ HasBlobDone
    \/ (Quiet /\ ClearOpen(1))
    \/ ClearList(1)
    \/ ClearRemove(1)
    \/ ClearReturn(1)
    \/ ClearForget(1)
    \/ (Quiet /\ DirectoryCall)
    \/ (Quiet /\ TransportCall)
    \/ (Quiet /\ StringWithinTransportCall)
    \/ (Quiet /\ DockerReferenceCall)
    \/ (Quiet /\ PolicyConfigurationIdentityCall)
    \/ (Quiet /\ PolicyConfigurationNamespacesCall)
    \/ (Quiet /\ DeleteImageCall)
    \/ (Quiet /\ NewImageCall)
    \/ AnswerDone

SpecMethods == InitMethods /\ [][NextMethods]_vars

\* C12: after any sequence of method calls the store's directory and policy
\* are those given to NewBlobCache, and Directory() returns that directory.
C12_FieldsImmutable ==
    /\ ~store.isNil
    /\ store.directory = nb.directory
    /\ store.compress = nb.compress
    /\ store.reference = nb.ref
    /\ (fw.called /\ fw.method = "Directory") => fw.ret = <<nb.directory>>
    /\ (fw.called /\ fw.method = "NewImage" /\ fw.ret = <<Nil>>) =>
          /\ Directory(fw.img) = nb.directory
          /\ fw.img.compress = nb.compress

\* Directory() answers the directory given to NewBlobCache after the remote
\* image was deleted and the cache was cleared of the entries it held
C12_Witness ==
    /\ fw.called /\ fw.method = "Directory"
    /\ fw.ret = <<CacheDir>> /\ nb.directory = CacheDir
    /\ ImageName(store.reference) \notin remote
    /\ disk = << >>

\* Directory and the forwarded identity methods
ReadOnlyMethods ==
    {"Directory", "Transport", "StringWithinTransport", "DockerReference",
     "PolicyConfigurationIdentity", "PolicyConfigurationNamespaces"}

\* C16: HasBlob, Directory and the forwarded identity methods leave the
\* entries of the cache directory and their sizes as they are, whatever
\* they return: no step of HasBlob and no return of the others changes a file.
C16_ReadOnly ==
    [][(\/ (hb' # hb /\ ~hb.called)
        \/ (fw'.called /\ ~fw.called /\ fw'.method \in ReadOnlyMethods))
          => disk' = disk]_vars

\* HasBlob has returned an error, and has reported no blob for a size that
\* an existing entry does not have, with the entries still there
C16_Witness ==
    /\ hb.called
    /\ Cardinality(DOMAIN disk) = MaxEntries
    /\ \/ hb.ret.err # Nil
       \/ /\ ~hb.ret.found
          /\ Join(store.directory, hb.blobinfo.Digest) \in DOMAIN disk

----------------------------------------------------------------------------
(* The variant link mechanism. The file declares the two side-file         *)
(* suffixes and nothing else of it; the operators below follow sections    *)
(* 4.3 and 6 of the design.                                               *)

\* the kinds of variant link
VariantKinds == {"Compressed", "Decompressed"}

\* the suffix of the side file of a kind
VariantNote(kind) == IF kind = "Compressed" THEN compressedNote ELSE decompressedNote

\* the side file <ownerDigest>.compressed or <ownerDigest>.decompressed
LinkPath(b, ownerDigest, kind) == Join(b.directory, ownerDigest \o VariantNote(kind))

\* side files of the model, and their possible contents
LinkPaths == {Join(CacheDir, dg \o VariantNote(k)) : dg \in NonEmptyDigests, k \in VariantKinds}

\* RecordVariant(ownerDigest, kind, targetDigest): the side file appears in
\* one step (rename) with the target digest as its content. Returns the
\* filesystem, the side files' contents and the error.
RecordVariant(b, ownerDigest, kind, targetDigest, d, lk, fault) ==
    LET path == LinkPath(b, ownerDigest, kind)
    IN  IF fault # NoFault \/ b.directory # CacheDir
        THEN [disk |-> d, links |-> lk,
              err |-> IF fault # NoFault THEN fault ELSE ENOENT]
        ELSE [disk |-> [q \in DOMAIN d \cup {path} |->
                            IF q = path THEN Len(targetDigest) ELSE d[q]],
              links |-> [q \in DOMAIN lk \cup {path} |->
                            IF q = path THEN targetDigest ELSE lk[q]],
              err |-> Nil]

\* ResolveVariant(digest, kind): the content of the side file if it exists;
\* a missing side file is found=false without error
ResolveVariant(b, digest, kind, lk, fault) ==
    LET path == LinkPath(b, digest, kind)
    IN  IF fault # NoFault THEN [targetDigest |-> "", found |-> FALSE, err |-> fault]
        ELSE IF path \in DOMAIN lk
        THEN [targetDigest |-> lk[path], found |-> TRUE, err |-> Nil]
        ELSE [targetDigest |-> "", found |-> FALSE, err |-> Nil]

\* the kinds of link a reader consults under a policy: none under
\* PreserveOriginal
PolicyKinds(compress) ==
    IF compress = "Compress" THEN <<"Compressed">>
    ELSE IF compress = "Decompress" THEN <<"Decompressed">>
    ELSE << >>

\* a resolution that serves the target of a link without probing for it
ResolveTrustingLink(b, digest, d, lk, fault, statFault) ==
    LET kinds == PolicyKinds(b.compress)
    IN  IF kinds = << >>
        THEN [digest |-> digest, err |-> Nil, reads |-> << >>]
        ELSE LET v == ResolveVariant(b, digest, kinds[1], lk, fault)
                 reads == <<LinkPath(b, digest, kinds[1])>>
             IN  IF v.err # Nil
                 THEN [digest |-> digest, err |-> v.err, reads |-> reads]
                 ELSE IF v.found
                 THEN [digest |-> v.targetDigest, err |-> Nil, reads |-> reads]
                 ELSE [digest |-> digest, err |-> Nil, reads |-> reads]

\* The digest a reader serves for a requested digest under the store's
\* policy. It reads the side file of the policy's kind; when the link is
\* there it runs HasBlob on the target with unknown size, and serves the
\* target only if HasBlob finds it. A failed read and a failed probe are
\* returned to the caller with the requested digest. fault is the error the
\* read of the side file meets, statFault the errors the stats of the probe
\* meet; reads are the side files read. Nothing else writes entries while a
\* reader resolves, so the probe sees one filesystem.
Resolve(b, digest, d, lk, fault, statFault) ==
    LET kinds == PolicyKinds(b.compress)
    IN  IF kinds = << >>
        THEN [digest |-> digest, err |-> Nil, reads |-> << >>]
        ELSE LET v == ResolveVariant(b, digest, kinds[1], lk, fault)
                 reads == <<LinkPath(b, digest, kinds[1])>>
                 probe == HasBlob(b, [Digest |-> v.targetDigest, Size |-> UnknownSize],
                                  d, statFault)
             IN  IF v.err # Nil
                 THEN [digest |-> digest, err |-> v.err, reads |-> reads]
                 ELSE IF ~v.found
                 THEN [digest |-> digest, err |-> Nil, reads |-> reads]
                 ELSE IF probe.err # Nil
                 THEN [digest |-> digest, err |-> probe.err, reads |-> reads]
                 ELSE IF probe.found
                 THEN [digest |-> v.targetDigest, err |-> Nil, reads |-> reads]
                 ELSE [digest |-> digest, err |-> Nil, reads |-> reads]

\* a store has been constructed; the directory holds a few blob entries and
\* no side file
InitVariant ==
    /\ InitMethods
    /\ DOMAIN disk \cap LinkPaths = {}

\* a writer records a variant link
RecordVariantCall ==
    /\ ~fw.called
    /\ \E owner \in NonEmptyDigests, kind \in VariantKinds, target \in NonEmptyDigests,
          fault \in {NoFault} \cup Faults :
          LET r == RecordVariant(store, owner, kind, target, disk, links, fault)
          IN  /\ disk' = r.disk
              /\ links' = r.links
    /\ UNCHANGED <<store, nb, hb, cc, writes, mf, fw, remote, wr>>

\* a reader resolves a digest; fw holds the requested digest, the answer,
\* the error and the side files read
ResolveCall ==
    /\ ~fw.called
    /\ \E dg \in NonEmptyDigests, fault \in {NoFault} \cup Faults,
          statFault \in [BOOLEAN -> {NoFault} \cup Faults] :
          LET r == Resolve(store, dg, disk, links, fault, statFault)
          IN  fw' = [called |-> TRUE, method |-> "Resolve",
                     ret |-> <<dg, r.digest, r.err>> \o r.reads, img |-> NilStore]
    /\ UNCHANGED <<disk, store, nb, hb, cc, writes, mf, remote, links, wr>>

NextVariant == RecordVariantCall \/ ResolveCall \/ AnswerDone

SpecVariant == InitVariant /\ [][NextVariant]_vars

\* a resolution of digest dg has returned
ResolveReturned(dg) ==
    /\ fw.called /\ fw.method = "Resolve"
    /\ fw.ret[1] = dg

\* a resolution of digest dg has returned without error
Resolved(dg) == ResolveReturned(dg) /\ fw.ret[3] = Nil

\* digest dg has an entry in the store's directory, in either form
Stored(dg) == \E c \in BOOLEAN : FormPath(store, dg, c) \in DOMAIN disk

\* C13: for a stored digest A with a link {A, Compressed, B}: under policy
\* Compress a resolution of A that returns without error answers B when B
\* has an entry and A when it has none, and no resolution, failed or not,
\* answers a B that has no entry; under PreserveOriginal the resolution
\* answers A without error and reads no side file.
C13_VariantResolution ==
    \A A \in NonEmptyDigests :
        (/\ ResolveReturned(A)
         /\ Stored(A)
         /\ LinkPath(store, A, "Compressed") \in DOMAIN links) =>
            LET B == links[LinkPath(store, A, "Compressed")]
            IN  /\ store.compress = "Compress" =>
                      /\ Resolved(A) => fw.ret[2] = (IF Stored(B) THEN B ELSE A)
                      /\ fw.ret[2] \in {A, B}
                      /\ fw.ret[2] = B => Stored(B)
                      /\ SubSeq(fw.ret, 4, Len(fw.ret))
                             = <<LinkPath(store, A, "Compressed")>>
                /\ store.compress = "PreserveOriginal" =>
                      /\ fw.ret[2] = A
                      /\ fw.ret[3] = Nil
                      /\ Len(fw.ret) = 3

\* under Compress, a link from a stored digest to a digest with no entry:
\* the resolution has read the link and answers the requested digest
C13_Witness ==
    /\ Resolved("sha:a")
    /\ store.compress = "Compress"
    /\ Stored("sha:a") /\ ~Stored("sha:b")
    /\ LinkPath(store, "sha:a", "Compressed") \in DOMAIN links
    /\ links[LinkPath(store, "sha:a", "Compressed")] = "sha:b"
    /\ fw.ret[2] = "sha:a"
    /\ Len(fw.ret) = 4

----------------------------------------------------------------------------
(* Writers of cache entries and side files. They are outside the file;     *)
(* the steps below follow section 5 of the design: write under a temporary *)
(* name, then rename to the final name.                                    *)

\* the digest writer w stores; the writers store distinct digests
WriterDigest(w) == IF w = 1 THEN "sha:a" ELSE "sha:b"

\* the final names writer w can create: the two forms of its digest's entry
\* and its two side files
WriterNames(w) ==
    {makeFilename(WriterDigest(w), c) : c \in BOOLEAN}
        \cup {WriterDigest(w) \o VariantNote(k) : k \in VariantKinds}

\* final names that are side files
IsLinkName(name) ==
    \E dg \in NonEmptyDigests, k \in VariantKinds : name = dg \o VariantNote(k)

\* the temporary name is the final name itself: the content is written in place
TempNameInPlace(name, w) == name

\* the temporary name writer w writes the content of a final name under
TempName(name, w) == name \o (IF w = 1 THEN ".tmp1" ELSE ".tmp2")

\* create or truncate the file at path
CreateStep(d, path) ==
    [q \in DOMAIN d \cup {path} |-> IF q = path THEN 0 ELSE d[q]]

\* the file at path grows to n bytes
AppendStep(d, path, n) ==
    [q \in DOMAIN d |-> IF q = path THEN n ELSE d[q]]

\* rename(from, to): in one step the content of from is at to, from is gone
RenameStep(d, from, to) ==
    [q \in (DOMAIN d \ {from}) \cup {to} |-> IF q = to THEN d[from] ELSE d[q]]

\* the store exists, its directory exists and is empty
InitWriters ==
    /\ InitMethods
    /\ disk = << >>
    /\ store.directory = CacheDir

\* writer w starts on a final name: it creates the temporary file. The
\* content is full bytes long; for a side file it is the target digest.
WriterBegin(w) ==
    /\ wr[w].pc = "idle"
    /\ \E name \in WriterNames(w), size \in 0..MaxSize, target \in NonEmptyDigests :
          LET full == IF IsLinkName(name) THEN Len(target) ELSE size
              temp == Join(store.directory, TempName(name, w))
          IN  /\ wr' = [wr EXCEPT ![w] =
                          [pc |-> "writing", path |-> Join(store.directory, name),
                           temp |-> temp, full |-> full, written |-> 0,
                           target |-> IF IsLinkName(name) THEN target ELSE ""]]
              /\ disk' = CreateStep(disk, temp)
    /\ UNCHANGED <<store, nb, hb, cc, writes, mf, fw, remote, links>>

\* writer w writes more of the content to its temporary file
WriterAppend(w) ==
    /\ wr[w].pc = "writing"
    /\ wr[w].written < wr[w].full
    /\ \E n \in (wr[w].written + 1)..wr[w].full :
          /\ wr' = [wr EXCEPT ![w].written = n]
          /\ disk' = AppendStep(disk, wr[w].temp, n)
    /\ UNCHANGED <<store, nb, hb, cc, writes, mf, fw, remote, links>>

\* writer w has written everything and renames the temporary file
WriterRename(w) ==
    /\ wr[w].pc = "writing"
    /\ wr[w].written = wr[w].full
    /\ wr' = [wr EXCEPT ![w].pc = "done"]
    /\ disk' = RenameStep(disk, wr[w].temp, wr[w].path)
    /\ links' = IF wr[w].target = "" THEN links
                ELSE [q \in DOMAIN links \cup {wr[w].path} |->
                         IF q = wr[w].path THEN wr[w].target ELSE links[q]]
    /\ UNCHANGED <<store, nb, hb, cc, writes, mf, fw, remote>>

\* a reader enters HasBlob for a digest of unknown size; no stat will fail
ReaderHasBlob ==
    /\ hb = NoCall
    /\ \E dg \in NonEmptyDigests :
          LET blobinfo == [Digest |-> dg, Size |-> UnknownSize]
              fault == [c \in BOOLEAN |-> NoFault]
              e == HasBlobEnter(store, blobinfo)
          IN  hb' = IF e.returned
                    THEN HasBlobReturned(blobinfo, fault, NotFound(<< >>))
                    ELSE HasBlobProbing(blobinfo, fault, e.forms, << >>)
    /\ UNCHANGED <<disk, store, nb, cc, writes, others>>

\* a reader reads a side file
ReaderResolveVariant ==
    /\ ~fw.called
    /\ \E dg \in NonEmptyDigests, kind \in VariantKinds :
          LET r == ResolveVariant(store, dg, kind, links, NoFault)
          IN  fw' = [called |-> TRUE, method |-> "ResolveVariant",
                     ret |-> <<dg, kind, r.targetDigest, r.err>>, img |-> NilStore]
    /\ UNCHANGED <<disk, store, nb, hb, cc, writes, mf, remote, links, wr>>

NextWriters ==
    \/ \E w \in Writers : WriterBegin(w) \/ WriterAppend(w) \/ WriterRename(w)
    \/ ReaderHasBlob
    \/ HasBlobStat
    \/ HasBlobDone
    \/ ReaderResolveVariant
    \/ AnswerDone

SpecWriters == InitWriters /\ [][NextWriters]_vars

\* the final names of the directory: entries and side files
FinalPaths == Paths \cup LinkPaths

\* writer w has finished the file at path
Finished(w, path) == wr[w].pc = "done" /\ wr[w].path = path

\* the paths that belong to writer w: its final names and its temporary files
WriterPaths(w) ==
    {Join(CacheDir, name) : name \in WriterNames(w)}
        \cup {Join(CacheDir, TempName(name, w)) : name \in WriterNames(w)}

\* every file under a final name is the whole content a finished writer
\* wrote there, and a side file's content is that writer's target
CompleteOrAbsent ==
    \A path \in DOMAIN disk \cap FinalPaths :
        \E w \in Writers :
            /\ Finished(w, path)
            /\ disk[path] = wr[w].full
            /\ (path \in LinkPaths) = (path \in DOMAIN links)
            /\ path \in LinkPaths => links[path] = wr[w].target

\* what a reader was told about a digest is the whole content of its writer
ReaderSawComplete ==
    /\ (hb.called /\ hb.ret.found) =>
           \E w \in Writers :
               /\ WriterDigest(w) = hb.blobinfo.Digest
               /\ wr[w].pc = "done"
               /\ hb.ret.size = wr[w].full
    /\ (fw.called /\ fw.method = "ResolveVariant" /\ fw.ret[3] # "") =>
           \E w \in Writers :
               /\ Finished(w, LinkPath(store, fw.ret[1], fw.ret[2]))
               /\ fw.ret[3] = wr[w].target

\* a step of writer w leaves every other path of the directory as it was
OthersUntouched(w) ==
    wr'[w] # wr[w] =>
        \A path \in (DOMAIN disk \cup DOMAIN disk') \ WriterPaths(w) :
            /\ path \in DOMAIN disk /\ path \in DOMAIN disk'
            /\ disk'[path] = disk[path]

\* C14: with writers of distinct digests and readers interleaved in any
\* order, every final name is absent or holds the complete content, what a
\* reader sees of a name is its complete content, and a writer's step
\* changes no path of another digest.
C14_CompleteOrAbsent ==
    /\ [](CompleteOrAbsent /\ ReaderSawComplete)
    /\ [][\A w \in Writers : OthersUntouched(w)]_vars

\* writer 1 is half-way through the temporary file of its entry, writer 2
\* has finished its entry, and a reader has found writer 2's blob complete
C14_Witness ==
    /\ wr[1].pc = "writing" /\ wr[1].written < wr[1].full
    /\ wr[1].path \notin DOMAIN disk
    /\ wr[2].pc = "done" /\ wr[2].path \in DOMAIN disk
    /\ hb.called /\ hb.blobinfo.Digest = "sha:b" /\ hb.ret.found

----------------------------------------------------------------------------
(* Two callers of ClearCache on one directory: the specification           *)
(* SpecClearers. Nobody writes.                                            *)

NextClearers ==
    \E p \in Clearers :
        \/ ClearOpen(p)
        \/ ClearList(p)
        \/ ClearRemove(p)
        \/ ClearReturn(p)

SpecClearers == InitMethods /\ [][NextClearers]_vars

\* caller p's ClearCache has returned, and neither os.Open nor Readdirnames
\* nor a removal failed for a permission or I/O reason
ReturnedUnfailed(p) ==
    /\ cc[p].pc = "done"
    /\ cc[p].err \notin (OpenErrors \cup ListErrors \cup RemoveErrors)

\* C17: a ClearCache that listed an empty directory returns nil and the
\* directory is empty; when both callers have returned with no open,
\* listing or removal failing for permission or I/O reasons, both returned
\* nil and no entry that either listed is in the directory.
C17_RemovingGoneIsNoFailure ==
    /\ \A p \in Clearers :
           (ReturnedUnfailed(p) /\ cc[p].names = << >>) =>
               /\ cc[p].err = Nil
               /\ DirNames(disk, store.directory) = {}
    /\ (\A p \in Clearers : ReturnedUnfailed(p)) =>
           \A p \in Clearers :
               /\ cc[p].err = Nil
               /\ ListedPaths(p) \cap DOMAIN disk = {}

\* both callers listed the same two entries before either removed one, so
\* one of them went on to remove entries that were already gone
C17_Witness ==
    /\ \A p \in Clearers : ClearedNil(p) /\ cc[p].tried = 2
    /\ ListedPaths(1) = {Join(CacheDir, "sha:a"), Join(CacheDir, "sha:b.config")}
    /\ ListedPaths(2) = ListedPaths(1)
    /\ disk = << >>

----------------------------------------------------------------------------
(* ClearCache against writers that never stop, with a reader of the        *)
(* directory alongside: the specification SpecFair                         *)

\* the entries the writers keep creating: both forms of one digest and its
\* side file
FairPaths ==
    {Join(CacheDir, makeFilename("sha:a", c)) : c \in BOOLEAN}
        \cup {Join(CacheDir, "sha:a" \o compressedNote)}

\* one store over the cache directory, which holds a few of those entries
InitFair ==
    /\ InitMethods
    /\ DOMAIN disk \subseteq FairPaths
    /\ store.directory = CacheDir
    /\ store.compress = "PreserveOriginal"
    /\ store.reference = CHOOSE r \in References : TRUE

\* a writer creates or replaces an entry in one atomic step, any number of
\* times; the directory holds at most MaxEntries entries
WriteAgain ==
    /\ \E path \in FairPaths, size \in 0..MaxSize :
          /\ Cardinality(DOMAIN disk \cup {path}) <= MaxEntries
          /\ disk' = [q \in DOMAIN disk \cup {path} |->
                          IF q = path THEN size ELSE disk[q]]
    /\ UNCHANGED <<store, nb, hb, cc, writes, others>>

NextFair ==
    \/ WriteAgain
    \/ ReaderHasBlob
    \/ HasBlobStat
    \/ HasBlobDone
    \/ ClearOpen(1)
    \/ ClearList(1)
    \/ ClearRemove(1)
    \/ ClearReturn(1)

\* a call of ClearCache that has started goes on: each of its steps is a
\* system call that returns
SpecFair ==
    /\ InitFair
    /\ [][NextFair]_vars
    /\ WF_vars(ClearList(1))
    /\ WF_vars(ClearRemove(1))
    /\ WF_vars(ClearReturn(1))

\* the call is under way
InClearCache == cc[1].pc \in {"opened", "listed"}

\* once the listing is taken the call keeps it, makes one removal at a time
\* and never goes back to listing
ListingKept ==
    cc[1].pc = "listed" =>
        /\ cc'[1].pc \in {"listed", "done"}
        /\ cc'[1].names = cc[1].names
        /\ cc'[1].tried \in {cc[1].tried, cc[1].tried + 1}
        /\ cc'[1].tried # cc[1].tried =>
               DOMAIN disk \ DOMAIN disk' \subseteq {CachePath(cc[1].names[cc[1].tried + 1])}

\* C18: a ClearCache call under way returns, whatever writers do meanwhile;
\* it tries at most one removal per name of the one listing it took.
C18_ClearTerminates ==
    /\ InClearCache ~> (cc[1].pc = "done")
    /\ [](cc[1].tried <= Len(cc[1].names))
    /\ [][ListingKept]_vars

\* the call has returned nil after removing its two listed entries while
\* the directory has entries again
C18_Witness ==
    /\ ClearedNil(1)
    /\ cc[1].tried = 2
    /\ ListedPaths(1) \cap DOMAIN disk = {}
    /\ DOMAIN disk # {}

====
